---------------------------- MODULE Spec2Model ----------------------------
(***************************************************************************)
(* A model of the CGPO backend: the trading-simulation environment         *)
(* (backend/core/market_env.py, MarketGraphEnv) and the serving layer's    *)
(* training / inference endpoints (backend/main.py), the graph builder     *)
(* (GraphEngine.build_graph, both versions in the tree) and the Agent      *)
(* (backend/core/agent.py).                                                *)
(*                                                                         *)
(* Floating-point quantities are modelled in fixed point: a return r is    *)
(* the integer r * Scale, a reward likewise; money is kept in whole units. *)
(* Portfolio weights are exact rationals [num, den].                       *)
(***************************************************************************)
EXTENDS Integers, Sequences, FiniteSets, TLC

VARIABLES
    \* ---- MarketGraphEnv (backend/core/market_env.py) ----
    tickers,            \* self.tickers
    data,               \* self.data: [len, close, index]
    window_size,        \* self.window_size
    max_steps,          \* self.max_steps
    benchmark_prices,   \* self.benchmark_prices: [is_none, close: date -> price]
    current_step,       \* self.current_step (the time pointer t)
    portfolio_value,    \* self.portfolio_value
    benchmark_value,    \* self.benchmark_value
    current_weights,    \* self.current_weights
    agent_returns,      \* self.agent_returns
    benchmark_returns,  \* self.benchmark_returns
    last,               \* what the last call on the environment returned / raised
    \* ---- serving layer (backend/main.py) ----
    state,              \* the module-level state dictionary
    state_lock,         \* owner of state_lock (0: free)
    agents,             \* the Agent objects created so far
    model_file,         \* models/agent.pth
    pc,                 \* where each request's thread is
    loc,                \* each request's local variables
    \* ---- GraphEngine (backend/core/graph_engine.py, core/graph_engine.py) ----
    engine,             \* the GraphEngine object under test
    graph,              \* what the last build_graph call returned
    \* ---- Agent (backend/core/agent.py) ----
    call,               \* what the last call on an Agent returned / raised
    saver,              \* the Agent as it was when it wrote model_file
    run                 \* the Agent.train call in progress and its local variables

envVars == <<tickers, data, window_size, max_steps, benchmark_prices,
             current_step, portfolio_value, benchmark_value, current_weights,
             agent_returns, benchmark_returns, last>>

srvVars == <<state, state_lock, agents, model_file, pc, loc>>

graphVars == <<engine, graph>>

agtVars == <<call, saver, run>>

vars == <<envVars, srvVars, graphVars, agtVars>>

-----------------------------------------------------------------------------
(* Bounds of the model *)

\* the longest episode explored, in steps (history length = window + 1 + steps)
MaxSteps == 22

\* fixed-point resolution of returns and rewards (1 = 1/Scale)
Scale == 1000

\* requests the serving layer receives
MaxRequests == 2

\* the largest "episodes" of a training request
MaxEpisodes == 2

\* Agent objects constructed directly
MaxAgents == 2

(* Program constants *)
StartingCapital == 10000
ExcessScale == 100
SwingScale == 50
VolScale == 10
VolWindow == 20
BonusScale == 10
BonusWindow == 5

-----------------------------------------------------------------------------
(* Arithmetic helpers *)

RECURSIVE SumSeq(_)
SumSeq(s) == IF s = <<>> THEN 0 ELSE Head(s) + SumSeq(Tail(s))

RECURSIVE SumSq(_)
SumSq(s) == IF s = <<>> THEN 0 ELSE Head(s) * Head(s) + SumSq(Tail(s))

Abs(x) == IF x < 0 THEN -x ELSE x

RECURSIVE Gcd(_, _)
Gcd(a, b) == IF b = 0 THEN a ELSE Gcd(b, a % b)

RECURSIVE GcdSeq(_)
GcdSeq(s) == IF s = <<>> THEN 0 ELSE Gcd(Abs(Head(s)), GcdSeq(Tail(s)))

\* s[-n:]
LastN(s, n) == IF Len(s) <= n THEN s ELSE SubSeq(s, Len(s) - n + 1, Len(s))

RECURSIVE ISqrtFrom(_, _)
ISqrtFrom(v, r) == IF (r + 1) * (r + 1) > v THEN r ELSE ISqrtFrom(v, r + 1)

\* floor of the square root
ISqrt(v) == ISqrtFrom(v, 0)

\* np.std (population standard deviation), in fixed point
Std(s) ==
    LET n == Len(s)
    IN  ISqrt((n * SumSq(s) - SumSeq(s) * SumSeq(s)) \div (n * n))

-----------------------------------------------------------------------------
(* Inputs of the environment: universes, price histories, benchmark series *)

Universes == { <<"AAPL", "MSFT">>, <<"AAPL", "MSFT", "GOOG">> }

WindowSizes == {10, 20}

\* number of steps an episode over the history has (history length - window - 1)
EpisodeSteps == {0, 1, 2, 3, MaxSteps}

PricePatterns == {"flat", "wave"}

BenchmarkModes == {"failed", "full", "gaps"}

\* Close price of asset i at row t.  "flat": constant prices.  "wave": all
\* assets alternate 100 / 110, and at row w + 2 asset i >= 2 trades at 120 + i.
ClosePrice(p, i, t, w) ==
    IF p = "flat" THEN 100
    ELSE IF i >= 2 /\ t = w + 2 THEN 120 + i
    ELSE IF t % 2 = 0 THEN 100 ELSE 110

\* the price frame: len(data), data['Close'].iloc[t], data.index[t]
MakeData(p, n, len, w) ==
    [len   |-> len,
     close |-> [t \in 0 .. len - 1 |-> [i \in 1 .. n |-> ClosePrice(p, i, t, w)]],
     index |-> [t \in 0 .. len - 1 |-> 1000 + t]]

\* the benchmark's Close series by date, or None when the download failed
MakeBenchmark(m, len) ==
    IF m = "failed" THEN [is_none |-> TRUE, close |-> [d \in {} |-> 0]]
    ELSE LET dates == IF m = "full" THEN 0 .. len - 1
                      ELSE {t \in 0 .. len - 1 : t % 4 # 1}
         IN  [is_none |-> FALSE,
              close |-> [d \in {1000 + t : t \in dates} |-> 400 + 7 * (d % 3)]]

Ones(n) == [i \in 1 .. n |-> 1]
Zeros(n) == [i \in 1 .. n |-> 0]
OneHot(n) == [i \in 1 .. n |-> IF i = 1 THEN 1 ELSE 0]
LongShort(n) == [i \in 1 .. n |-> IF i = 1 THEN 2 ELSE IF i = 2 THEN -1 ELSE 0]

\* raw action vectors handed to step: of the universe's length and not
Actions(n) ==
    { Ones(n), OneHot(n), LongShort(n), Zeros(n),
      Ones(n + 1), Zeros(n + 1), Ones(n - 1) }

-----------------------------------------------------------------------------
(* MarketGraphEnv *)

n_assets == Len(tickers)

Uniform(n) == [num |-> Ones(n), den |-> n]

\* step, lines 103-107: weights / sum when the sum is positive, else uniform
Normalize(action, n) ==
    LET s == SumSeq(action)
    IN  IF s > 0
        THEN LET g == Gcd(GcdSeq(action), s)
             IN  [num |-> [i \in 1 .. Len(action) |-> action[i] \div g],
                  den |-> s \div g]
        ELSE Uniform(n)

\* (prices_t1 - prices_t) / prices_t
AssetReturns(t) ==
    [i \in 1 .. Len(data.close[t]) |->
        ((data.close[t + 1][i] - data.close[t][i]) * Scale) \div data.close[t][i]]

\* np.dot(weights, asset_returns)
PortReturn(weights, rets) ==
    SumSeq([i \in 1 .. Len(rets) |-> weights.num[i] * rets[i]]) \div weights.den

\* variant: a missing date is filled with a default price instead of giving 0
GetBenchmarkReturnFilled(t) ==
    IF benchmark_prices.is_none
    THEN 0
    ELSE LET price == benchmark_prices.close
             at(d) == IF d \in DOMAIN price THEN price[d] ELSE 400
         IN  ((at(data.index[t + 1]) - at(data.index[t])) * Scale) \div at(data.index[t])

\* _get_benchmark_return: 0 unless both dates are in the benchmark's index
GetBenchmarkReturn(t) ==
    IF benchmark_prices.is_none
    THEN 0    \* None has no .index: the bare except swallows the error
    ELSE LET current_date == data.index[t]
             next_date == data.index[t + 1]
             price == benchmark_prices.close
         IN  IF current_date \in DOMAIN price /\ next_date \in DOMAIN price
             THEN ((price[next_date] - price[current_date]) * Scale)
                     \div price[current_date]
             ELSE 0

\* value *= (1 + r)
Compound(value, r) == (value * (Scale + r)) \div Scale

\* rows a : b of the frame as .iloc slices them: a negative bound counts from
\* the end, and both bounds are clipped to the frame
SliceBound(x) ==
    IF x < 0 THEN (IF data.len + x < 0 THEN 0 ELSE data.len + x)
    ELSE IF x > data.len THEN data.len ELSE x

Slice(a, b) ==
    [first |-> SliceBound(a),
     rows  |-> IF SliceBound(b) > SliceBound(a) THEN SliceBound(b) - SliceBound(a)
               ELSE 0]

\* variant: the window looks ahead from row t
WindowDataAhead(t) == Slice(t, t + window_size)

\* window_data = self.data.iloc[self.current_step - self.window_size :
\*                              self.current_step]
WindowData(t) == Slice(t - window_size, t)

\* _get_observation at time pointer t: the window handed to build_graph, which
\* answers with the zero snapshot when it has fewer than window_size rows
GetObservation(t) ==
    [first |-> WindowData(t).first,
     rows  |-> WindowData(t).rows,
     zero  |-> WindowData(t).rows < window_size]

NoObservation == [first |-> -1, rows |-> 0, zero |-> FALSE]

NoCall(op, t0) ==
    [op |-> op, t0 |-> t0, action |-> <<>>, reward |-> 0, terminated |-> FALSE,
     port_return |-> 0, bench_return |-> 0, vol_active |-> FALSE,
     bonus_active |-> FALSE, obs |-> NoObservation]

\* __init__: the state after construction on universe tk, window w, a price
\* history of pattern p with k steps after the window, and benchmark mode m
ConstructedOn(tk, w, k, p, m) ==
    LET len == w + 1 + k IN
    /\ tickers = tk
    /\ data = MakeData(p, Len(tk), len, w)
    /\ window_size = w
    /\ max_steps = len - w - 1
    /\ benchmark_prices = MakeBenchmark(m, len)
    /\ current_step = w
    /\ portfolio_value = StartingCapital
    /\ benchmark_value = StartingCapital
    /\ current_weights = Uniform(Len(tk))
    /\ agent_returns = <<>>
    /\ benchmark_returns = <<>>
    /\ last = NoCall("init", w)

Constructed ==
    \E tk \in Universes, w \in WindowSizes, k \in EpisodeSteps,
       p \in PricePatterns, m \in BenchmarkModes :
        ConstructedOn(tk, w, k, p, m)

\* variant: the time pointer is rewound to the first row, not to the window
resetToFirstRow ==
    /\ current_step' = 0
    /\ portfolio_value' = StartingCapital
    /\ benchmark_value' = StartingCapital
    /\ current_weights' = Uniform(n_assets)
    /\ agent_returns' = <<>>
    /\ benchmark_returns' = <<>>
    /\ last' = [NoCall("reset", current_step) EXCEPT !.obs = GetObservation(0)]
    /\ UNCHANGED <<tickers, data, window_size, max_steps, benchmark_prices>>

\* variant: the reset of core/market_env.py, which predates the benchmark
\* value and the return histories and leaves them alone
resetLegacy ==
    /\ current_step' = window_size
    /\ portfolio_value' = StartingCapital
    /\ current_weights' = Uniform(n_assets)
    /\ last' = [NoCall("reset", current_step)
                   EXCEPT !.obs = GetObservation(window_size)]
    /\ UNCHANGED <<benchmark_value, agent_returns, benchmark_returns>>
    /\ UNCHANGED <<tickers, data, window_size, max_steps, benchmark_prices>>

reset ==
    /\ current_step' = window_size
    /\ portfolio_value' = StartingCapital
    /\ benchmark_value' = StartingCapital
    /\ current_weights' = Uniform(n_assets)
    /\ agent_returns' = <<>>
    /\ benchmark_returns' = <<>>
    /\ last' = [NoCall("reset", current_step)
                   EXCEPT !.obs = GetObservation(window_size)]
    /\ UNCHANGED <<tickers, data, window_size, max_steps, benchmark_prices>>

\* excess_return * 100
ExcessTerm(port_return, bench_return) == (port_return - bench_return) * ExcessScale

\* 50.0 * np.abs(port_return)
SwingPenalty(port_return) == SwingScale * Abs(port_return)

\* len(self.agent_returns) > 20, evaluated after the step's return was appended
VolActive(ar) == Len(ar) > VolWindow

\* np.std(self.agent_returns[-20:]) * 10.0
VolPenalty(ar) == Std(LastN(ar, VolWindow)) * VolScale

\* len(self.agent_returns) > 5
BonusReady(ar) == Len(ar) > BonusWindow

\* 5 * (np.mean(agent_returns[-5:]) - np.mean(benchmark_returns[-5:]))
RecentExcessSum(ar, br) ==
    SumSeq(LastN(ar, BonusWindow)) - SumSeq(LastN(br, BonusWindow))

BonusActive(ar, br) == BonusReady(ar) /\ RecentExcessSum(ar, br) > 0

\* recent_excess * 10
ConsistencyBonus(ar, br) == (RecentExcessSum(ar, br) * BonusScale) \div BonusWindow

\* the reward of a step, from the histories as they are after the append
Reward(port_return, bench_return, ar, br) ==
    ExcessTerm(port_return, bench_return)
    - SwingPenalty(port_return)
    - (IF VolActive(ar) THEN VolPenalty(ar) ELSE 0)
    + (IF BonusActive(ar, br) THEN ConsistencyBonus(ar, br) ELSE 0)

\* variant: the episode is cut one row early
TerminatedEarly(t) == t >= data.len - 2

\* terminated = self.current_step >= len(self.data) - 1, after the advance
Terminated(t) == t >= data.len - 1

Raised(err, t0, action) ==
    [op |-> err, t0 |-> t0, action |-> action, reward |-> 0, terminated |-> FALSE,
     port_return |-> 0, bench_return |-> 0, vol_active |-> FALSE,
     bonus_active |-> FALSE, obs |-> NoObservation]

step(action) ==
    LET weights == Normalize(action, n_assets) IN
    /\ current_weights' = weights
    /\ IF current_step + 1 > data.len - 1
       THEN \* .iloc[self.current_step + 1] is out of bounds
            /\ last' = Raised("IndexError", current_step, action)
            /\ UNCHANGED <<current_step, portfolio_value, benchmark_value,
                           agent_returns, benchmark_returns>>
       ELSE LET asset_returns == AssetReturns(current_step) IN
            IF Len(weights.num) # Len(asset_returns)
            THEN \* np.dot: shapes not aligned
                 /\ last' = Raised("ValueError", current_step, action)
                 /\ UNCHANGED <<current_step, portfolio_value, benchmark_value,
                                agent_returns, benchmark_returns>>
            ELSE LET port_return == PortReturn(weights, asset_returns)
                     bench_return == GetBenchmarkReturn(current_step)
                     ar == Append(agent_returns, port_return)
                     br == Append(benchmark_returns, bench_return)
                 IN  /\ portfolio_value' = Compound(portfolio_value, port_return)
                     /\ benchmark_value' = Compound(benchmark_value, bench_return)
                     /\ agent_returns' = ar
                     /\ benchmark_returns' = br
                     /\ current_step' = current_step + 1
                     /\ last' = [op |-> "step", t0 |-> current_step,
                                 action |-> action,
                                 reward |-> Reward(port_return, bench_return, ar, br),
                                 terminated |-> Terminated(current_step + 1),
                                 port_return |-> port_return,
                                 bench_return |-> bench_return,
                                 vol_active |-> VolActive(ar),
                                 bonus_active |-> BonusActive(ar, br),
                                 obs |-> GetObservation(current_step + 1)]
    /\ UNCHANGED <<tickers, data, window_size, max_steps, benchmark_prices>>

-----------------------------------------------------------------------------
(* The graph builder: GraphEngine.build_graph (backend/core/graph_engine.py, *)
(* and the older core/graph_engine.py used by app.py and core/market_env.py) *)
(* Correlations and thresholds are in hundredths; indices are 1-based.       *)

EngineVersions == {"backend", "core"}

GraphUniverses ==
    { <<>>, <<"AAPL", "MSFT">>, <<"AAPL", "MSFT", "GOOG">>,
      <<"AAPL", "MSFT", "GOOG", "AMZN">> }

\* correlation_threshold: 0.3 in main.py and app.py, 0.5 by default
Thresholds == {30, 50}

\* min_neighbors: 2 by default
MinNeighbors == {1, 2, 3}

\* len(close_prices) of the frames passed in
HistoryRows == {0, 9, 10, 25}

\* off-diagonal correlations of the window's returns
CorrValues == {-90, 0, 40}

PairsOf(n) == {p \in (1 .. n) \X (1 .. n) : p[1] < p[2]}

\* window_closes.pct_change().corr().fillna(0).values: symmetric with a unit
\* diagonal, or all zero when every series is constant (NaN filled with 0)
CorrMatrices(n) ==
    { [i \in 1 .. n |-> [j \in 1 .. n |->
          IF i = j THEN 100 ELSE IF i < j THEN f[<<i, j>>] ELSE f[<<j, i>>]]] :
      f \in [PairsOf(n) -> CorrValues] }
    \cup { [i \in 1 .. n |-> [j \in 1 .. n |-> 0]] }

\* the frames handed to build_graph: a frame without a Close column, or rows
\* of closes whose last window (when there are that many rows) has correlation
\* matrix corr
Frames(n) ==
    { [has_close |-> FALSE, rows |-> 0, corr |-> <<>>] }
    \cup { [has_close |-> TRUE, rows |-> r, corr |-> c] :
           r \in HistoryRows, c \in CorrMatrices(n) }

AbsRow(row) == [j \in 1 .. Len(row) |-> Abs(row[j])]

\* np.where((abs_corr[i] > self.threshold) & (np.arange(n_tickers) != i))[0]
AboveThreshold(abs_row, i, threshold) ==
    LET keep(j) == abs_row[j] > threshold /\ j # i
    IN  SelectSeq([j \in 1 .. Len(abs_row) |-> j], keep)

\* np.argsort(abs_corr[i])[::-1]: the indices by descending value; the default
\* sort kind is not stable, so equal values may come out in any order
SortedIndices(abs_row) ==
    { p \in [1 .. Len(abs_row) -> 1 .. Len(abs_row)] :
        /\ \A a, b \in 1 .. Len(abs_row) : a # b => p[a] # p[b]
        /\ \A a \in 1 .. Len(abs_row) - 1 : abs_row[p[a]] >= abs_row[p[a + 1]] }

\* variant: the node itself is not filtered out of the sorted indices
FallbackKeepsSelf(sorted_indices, i, min_neighbors) ==
    SubSeq(sorted_indices, 1,
           IF Len(sorted_indices) < min_neighbors THEN Len(sorted_indices)
           ELSE min_neighbors)

\* [j for j in sorted_indices if j != i][:self.min_neighbors]
Fallback(sorted_indices, i, min_neighbors) ==
    LET others == SelectSeq(sorted_indices, LAMBDA j : j # i)
    IN  SubSeq(others, 1,
               IF Len(others) < min_neighbors THEN Len(others) ELSE min_neighbors)

\* variant: the threshold branch is never taken, every node gets the K best
NeighborsByFallbackOnly(corr, i, threshold, min_neighbors) ==
    {Fallback(p, i, min_neighbors) : p \in SortedIndices(AbsRow(corr[i]))}

\* the neighbour lists node i can get (one, unless the fallback meets a tie)
Neighbors(corr, i, threshold, min_neighbors) ==
    LET abs_row == AbsRow(corr[i])
        above_threshold == AboveThreshold(abs_row, i, threshold)
    IN  IF Len(above_threshold) >= min_neighbors
        THEN {above_threshold}
        ELSE {Fallback(p, i, min_neighbors) : p \in SortedIndices(abs_row)}

\* edge_list / edge_weights after the loop has run for nodes i, i+1, ..
RECURSIVE EdgeLists(_, _, _, _)
EdgeLists(corr, i, threshold, min_neighbors) ==
    IF i > Len(corr) THEN {<<>>}
    ELSE { [k \in 1 .. Len(nb) |-> <<i, nb[k], corr[i][nb[k]]>>] \o rest :
           nb \in Neighbors(corr, i, threshold, min_neighbors),
           rest \in EdgeLists(corr, i + 1, threshold, min_neighbors) }

\* core/graph_engine.py: rows, cols = np.where(np.abs(corr_matrix) > threshold)
\* with the self-loops masked out; row-major order, no weights
ThresholdEdges(corr, threshold) ==
    LET n == Len(corr)
        cells == [c \in 1 .. n * n |-> <<((c - 1) \div n) + 1, ((c - 1) % n) + 1>>]
        keep(e) == Abs(corr[e[1]][e[2]]) > threshold /\ e[1] # e[2]
    IN  SelectSeq(cells, keep)

NoEngine == [version |-> "none", tickers |-> <<>>, threshold |-> 0, min_neighbors |-> 0]

NoGraph ==
    [op |-> "none", raised |-> "none", has_close |-> FALSE, rows |-> 0, window |-> 0,
     corr |-> <<>>, outputs |-> 0, x |-> [rows |-> 0, cols |-> 0, zeros |-> FALSE],
     edge_list |-> <<>>, edge_weights |-> <<>>]

\* GraphEngine(tickers, correlation_threshold, min_neighbors): the arguments
\* are stored, nothing is checked; the older class has no min_neighbors
GraphEngineInit(version, tks, threshold, min_neighbors) ==
    /\ engine = NoEngine
    /\ engine' = [version |-> version, tickers |-> tks, threshold |-> threshold,
                  min_neighbors |-> IF version = "backend" THEN min_neighbors ELSE 0]
    /\ graph' = NoGraph

Returned(frame, window, outputs, cols, zeros, edges) ==
    [op |-> "build_graph", raised |-> "none", has_close |-> TRUE,
     rows |-> frame.rows, window |-> window,
     corr |-> IF zeros THEN <<>> ELSE frame.corr, outputs |-> outputs,
     x |-> [rows |-> Len(engine.tickers), cols |-> cols, zeros |-> zeros],
     edge_list |-> [k \in 1 .. Len(edges) |-> <<edges[k][1], edges[k][2]>>],
     edge_weights |-> IF outputs = 3 THEN [k \in 1 .. Len(edges) |-> edges[k][3]]
                      ELSE <<>>]

\* build_graph(market_data, window_size); the engine keeps nothing between
\* calls, so one call per object is explored
build_graph(frame, window) ==
    /\ engine # NoEngine
    /\ graph = NoGraph
    /\ IF ~frame.has_close
       THEN \* market_data['Close'] raises before the length is looked at
            graph' = [NoGraph EXCEPT !.op = "build_graph", !.raised = "KeyError",
                                     !.window = window]
       ELSE IF frame.rows < window
       THEN graph' = IF engine.version = "backend"
                     THEN Returned(frame, window, 3, 4, TRUE, <<>>)
                     ELSE Returned(frame, window, 2, 3, TRUE, <<>>)
       ELSE IF engine.version = "backend"
       THEN \E edges \in EdgeLists(frame.corr, 1, engine.threshold, engine.min_neighbors) :
                graph' = Returned(frame, window, 3, 4, FALSE, edges)
       ELSE graph' = Returned(frame, window, 2, 3, FALSE,
                              ThresholdEdges(frame.corr, engine.threshold))
    /\ UNCHANGED engine

-----------------------------------------------------------------------------
(* The Agent: backend/core/agent.py and the policy of backend/core/models.py *)
(* A parameter tensor is <<the object that initialised it, optimizer steps   *)
(* applied to it>>: two Agents are constructed with different random         *)
(* weights.  The optimizer (Adam) keeps a state per parameter tensor: the    *)
(* number of steps it has applied to it.                                     *)

\* num_assets of the Agents constructed
AgentSizes == {2}

\* the snapshots passed to get_action: n nodes, and the features / edges
\* summarised by a seed
Observations == { [n |-> 2, seed |-> 0], [n |-> 3, seed |-> 1] }

\* what F.dropout(p=0.1) can zero when the module is in training mode
\* (0: nothing dropped)
DropoutMasks == {0, 1}

\* the values a logit takes; exp(-104) underflows in float32
LogitValues == <<-104, -2, 0, 1, 3>>

\* the Gamma variates the Dirichlet sampler draws
GammaDraws == {1, 3}

\* loss of an episode
Losses == {"finite", "nan", "inf"}

\* conv1 and conv2 as GNNPolicy.__init__ leaves them in object id
FreshLayers(id) == << <<id, 0>>, <<id, 0>> >>

\* Agent(num_features, num_assets): nn.Module starts in training mode, Adam
\* starts with an empty state; num_assets is stored unchecked
AgentInit(id, n) ==
    [num_assets |-> n, layers |-> FreshLayers(id), training |-> TRUE,
     optimizer |-> <<0, 0>>]

NoAgent == [num_assets |-> 0, layers |-> <<>>, training |-> FALSE, optimizer |-> <<>>]

\* variant: the file is read whether it exists or not
LoadedUnconditionally(agent) ==
    [agent EXCEPT !.layers = model_file.layers, !.training = FALSE]

\* the Agent after load_model(): only when the file exists, the policy's
\* state_dict is replaced by the file's and policy.eval() is called
Loaded(agent) ==
    IF model_file.exists
    THEN [agent EXCEPT !.layers = model_file.layers, !.training = FALSE]
    ELSE agent

\* optimizer.step() on parameter tensor k
OptimizerStep(agent, k) ==
    [agent EXCEPT !.layers[k] = <<agent.layers[k][1], agent.layers[k][2] + 1>>,
                  !.optimizer[k] = agent.optimizer[k] + 1]

\* Agent.train's loop body for each episode's loss: the update is skipped when
\* the loss is NaN or infinite
RECURSIVE TrainEpisodes(_, _)
TrainEpisodes(agent, losses) ==
    IF losses = <<>> THEN agent
    ELSE TrainEpisodes(IF Head(losses) = "finite"
                       THEN OptimizerStep(OptimizerStep(agent, 1), 2)
                       ELSE agent,
                       Tail(losses))

\* all_rewards: one entry per episode whose update was applied
RewardsKept(losses) == Len(SelectSeq(losses, LAMBDA l : l = "finite"))

LossSeqs == UNION { [1 .. n -> Losses] : n \in 0 .. MaxEpisodes }

\* GNNPolicy.forward: the logits are a function of the parameters, the
\* snapshot and the dropout mask; the network's arithmetic is replaced by a
\* lookup that depends on all three
Forward(layers, obs, mask) ==
    LET h == layers[1][1] + layers[1][2] + 2 * layers[2][2] + obs.seed
    IN  [i \in 1 .. obs.n |->
            LogitValues[((h + i + mask * i) % Len(LogitValues)) + 1]]

\* F.softplus = log(1 + exp(x)), in fixed point (rounded down)
Softplus(x) ==
    ((CASE x = -104 -> 0
        [] x = -2 -> 126
        [] x = 0 -> 693
        [] x = 1 -> 1313
        [] x = 3 -> 3048) * Scale) \div 1000

\* variant: the concentrations without the + 1.0
AlphasWithoutOffset(logits) == [i \in 1 .. Len(logits) |-> Softplus(logits[i])]

\* alphas = F.softplus(logits) + 1.0
Alphas(logits) == [i \in 1 .. Len(logits) |-> Softplus(logits[i]) + Scale]

\* v / v.sum() as an exact rational vector
Proportions(v) ==
    LET g == Gcd(GcdSeq(v), SumSeq(v))
    IN  [num |-> [i \in 1 .. Len(v) |-> v[i] \div g], den |-> SumSeq(v) \div g]

\* the dropout masks a forward pass can meet: dropout acts only while the
\* module is in training mode
Masks(agent) == IF agent.training THEN DropoutMasks ELSE {0}

\* dist.mean
Mean(alphas) == Proportions(alphas)

\* dist.sample(): independent Gamma variates, normalised
Samples(alphas) == {Proportions(g) : g \in [1 .. Len(alphas) -> GammaDraws]}

NoAgentCall ==
    [op |-> "none", agent |-> 0, raised |-> "none", training |-> FALSE,
     obs |-> [n |-> 0, seed |-> 0], before |-> NoAgent, file_existed |-> FALSE,
     losses |-> <<>>, rewards |-> 0, logits |-> <<>>, alphas |-> <<>>,
     action |-> [num |-> <<>>, den |-> 1]]

\* agent = Agent(num_features=4, num_assets=n)
Agent(n) ==
    /\ Len(agents) < MaxAgents
    /\ agents' = Append(agents, AgentInit(Len(agents) + 1, n))
    /\ call' = [NoAgentCall EXCEPT !.op = "Agent", !.agent = Len(agents) + 1]
    /\ UNCHANGED <<model_file, saver>>

\* optimizer steps applied by the Agents so far
StepsTaken == SumSeq([b \in 1 .. Len(agents) |-> agents[b].optimizer[1]])

\* agent.train(env, episodes=Len(losses)); at most MaxEpisodes episodes
\* are trained in a run
train(a, losses) ==
    /\ StepsTaken + Len(losses) <= MaxEpisodes
    /\ agents' = [agents EXCEPT
                    ![a] = TrainEpisodes([agents[a] EXCEPT !.training = TRUE], losses)]
    /\ call' = [NoAgentCall EXCEPT !.op = "train", !.agent = a, !.before = agents[a],
                                   !.losses = losses, !.rewards = RewardsKept(losses)]
    /\ UNCHANGED <<model_file, saver>>

\* agent.save_model(): torch.save(self.policy.state_dict(), path)
save_model(a) ==
    /\ model_file' = [exists |-> TRUE, layers |-> agents[a].layers]
    /\ saver' = agents[a]
    /\ call' = [NoAgentCall EXCEPT !.op = "save_model", !.agent = a, !.before = agents[a],
                                   !.file_existed = model_file.exists]
    /\ UNCHANGED agents

\* agent.load_model()
load_model(a) ==
    /\ agents' = [agents EXCEPT ![a] = Loaded(agents[a])]
    /\ call' = [NoAgentCall EXCEPT !.op = "load_model", !.agent = a, !.before = agents[a],
                                   !.file_existed = model_file.exists]
    /\ UNCHANGED <<model_file, saver>>

\* agent.get_action(obs, training): Dirichlet(alphas) raises ValueError unless
\* every concentration is positive
get_action(a, obs, training) ==
    /\ \E mask \in Masks(agents[a]) :
        LET logits == Forward(agents[a].layers, obs, mask)
            alphas == Alphas(logits)
            this == [NoAgentCall EXCEPT !.op = "get_action", !.agent = a,
                                        !.training = training, !.obs = obs,
                                        !.before = agents[a], !.logits = logits,
                                        !.alphas = alphas]
        IN  IF \E i \in 1 .. Len(alphas) : alphas[i] <= 0
            THEN call' = [this EXCEPT !.raised = "ValueError"]
            ELSE \E action \in (IF training THEN Samples(alphas) ELSE {Mean(alphas)}) :
                    call' = [this EXCEPT !.action = action]
    /\ UNCHANGED <<agents, model_file, saver>>

-----------------------------------------------------------------------------
(* Agent.train statement by statement (backend/core/agent.py:51-125), run on *)
(* a MarketGraphEnv.  The log-probabilities, values and entropies of the     *)
(* rollout are the network's outputs and are not tracked; the loss they give *)
(* is finite, NaN or infinite.                                               *)

\* episodes of the train calls
NumEpisodes == 0 .. MaxEpisodes

\* the universes of the environments trained on
TrainUniverses == { <<"AAPL", "MSFT">> }

\* steps an episode has in the environments trained on (0: the history ends
\* right after the window and the first step raises)
TrainEpisodeSteps == {0, 1, 2, 3}

\* self.gamma = 0.99, in hundredths
Gamma == 99

\* self.gamma * R
Discount(R) == (Gamma * R) \div 100

\* R = 0; for r in reversed(rewards): R = r + self.gamma * R; returns.insert(0, R)
RECURSIVE ReturnsLoop(_, _, _)
ReturnsLoop(rewards, R, returns) ==
    IF rewards = <<>> THEN returns
    ELSE LET r == rewards[Len(rewards)]
         IN  ReturnsLoop(SubSeq(rewards, 1, Len(rewards) - 1),
                         r + Discount(R),
                         <<r + Discount(R)>> \o returns)

DiscountedReturns(rewards) == ReturnsLoop(rewards, 0, <<>>)

Sign(x) == IF x > 0 THEN 1 ELSE IF x < 0 THEN -1 ELSE 0

\* returns - returns.mean(), up to a positive common factor: n * (v[k] - mean)
\* divided by the greatest common divisor
Deviations(v) ==
    LET d == [k \in 1 .. Len(v) |-> Len(v) * v[k] - SumSeq(v)]
    IN  IF GcdSeq(d) = 0 THEN d
        ELSE [k \in 1 .. Len(v) |-> d[k] \div GcdSeq(d)]

\* the tensor the loss loop reads: NaN, the raw values, or z-scores kept
\* exactly as a sign and a square num / den
NoReturns == [nan |-> FALSE, normalized |-> FALSE, values |-> <<>>, z |-> <<>>]

\* (returns - returns.mean()) / (returns.std() + 1e-8): torch's std is the
\* sample standard deviation, NaN for a single value; the 1e-8 decides the
\* quotient only when the deviations are all zero (0 / 1e-8 = 0)
ZScore(v) ==
    LET n == Len(v)
        e == Deviations(v)
    IN  IF n < 2 THEN [NoReturns EXCEPT !.nan = TRUE, !.normalized = TRUE]
        ELSE [NoReturns EXCEPT
                !.normalized = TRUE,
                !.z = [k \in 1 .. n |->
                         IF SumSq(e) = 0 THEN [sign |-> 0, num |-> 0, den |-> 1]
                         ELSE [sign |-> Sign(e[k]),
                               num  |-> e[k] * e[k] * (n - 1),
                               den  |-> SumSq(e)]]]

\* variant: the returns are normalised whatever their number
NormalizedAlways(returns) == TRUE

\* if len(returns) > 1
Normalized(returns) == Len(returns) > 1

\* returns as the loss loop reads them
LossReturns(returns) ==
    IF Normalized(returns) THEN ZScore(returns)
    ELSE [NoReturns EXCEPT !.values = returns]

\* the loss summed over the steps: a NaN return makes it NaN
LossOutcomes(returns) == IF returns.nan THEN {"nan"} ELSE Losses

\* variant: only a NaN loss is caught
SkippedOnNaNOnly(loss) == loss = "nan"

\* torch.isnan(loss) or torch.isinf(loss)
Skipped(loss) == loss \in {"nan", "inf"}

\* variant: a skipped episode's reward is recorded all the same
RewardsAfterSkipRecorded(all_rewards, total_reward) ==
    Append(all_rewards, total_reward)

\* all_rewards after the "continue" of a skipped episode
RewardsAfterSkip(all_rewards, total_reward) == all_rewards

\* action, log_prob, value, entropy = self.get_action(obs, training=True): the
\* actions the call can return for the environment's snapshot
TrainingActions(agent) ==
    UNION { Samples(Alphas(Forward(agent.layers,
                                   [n |-> agent.num_assets, seed |-> 0], mask))) :
            mask \in Masks(agent) }

\* no train call yet.  log is the record of the episodes that have ended:
\* total reward, loss and number of steps of each
NoRun ==
    [pc |-> "idle", agent |-> NoAgent, episodes |-> 0, ep |-> 0,
     rewards |-> <<>>, total_reward |-> 0, returns_list |-> <<>>,
     returns |-> NoReturns, loss |-> "none", all_rewards |-> <<>>,
     log |-> <<>>, result |-> <<>>]

Ended(r) ==
    [total_reward |-> r.total_reward, loss |-> r.loss, steps |-> Len(r.rewards)]

\* train(env, episodes): self.policy.train(); all_rewards = []
AgentTrainBegin(n) ==
    /\ run.pc = "idle"
    /\ run' = [run EXCEPT !.pc = "episode", !.agent.training = TRUE,
                          !.episodes = n, !.ep = 0, !.all_rewards = <<>>]
    /\ UNCHANGED envVars

\* for episode in range(episodes): obs, _ = env.reset(); the episode's
\* lists are emptied
AgentTrainReset ==
    /\ run.pc = "episode"
    /\ run.ep < run.episodes
    /\ reset
    /\ run' = [run EXCEPT !.pc = "rollout", !.rewards = <<>>, !.total_reward = 0,
                          !.returns_list = <<>>, !.returns = NoReturns,
                          !.loss = "none"]

\* one pass of "while not done": get_action, env.step, the appends and
\* total_reward += float(reward); an exception of step ends the call
AgentTrainRollout ==
    /\ run.pc = "rollout"
    /\ \E action \in TrainingActions(run.agent) : step(action.num)
    /\ run' = IF last'.op = "step"
              THEN [run EXCEPT !.rewards = Append(run.rewards, last'.reward),
                               !.total_reward = run.total_reward + last'.reward,
                               !.pc = IF last'.terminated THEN "returns"
                                      ELSE "rollout"]
              ELSE [run EXCEPT !.pc = "raised"]

\* the returns, their normalisation and the loss loop
AgentTrainLoss ==
    /\ run.pc = "returns"
    /\ \E loss \in LossOutcomes(LossReturns(DiscountedReturns(run.rewards))) :
          run' = [run EXCEPT !.returns_list = DiscountedReturns(run.rewards),
                             !.returns = LossReturns(DiscountedReturns(run.rewards)),
                             !.loss = loss,
                             !.pc = "guard"]
    /\ UNCHANGED envVars

\* the NaN / Inf guard: print the warning and continue with the next episode
AgentTrainGuard ==
    /\ run.pc = "guard"
    /\ run' = IF Skipped(run.loss)
              THEN [run EXCEPT !.pc = "episode",
                               !.ep = run.ep + 1,
                               !.all_rewards = RewardsAfterSkip(run.all_rewards,
                                                                run.total_reward),
                               !.log = Append(run.log, Ended(run))]
              ELSE [run EXCEPT !.pc = "update"]
    /\ UNCHANGED envVars

\* zero_grad(), loss.backward(), clip_grad_norm_ and self.optimizer.step()
AgentTrainUpdate ==
    /\ run.pc = "update"
    /\ run' = [run EXCEPT !.agent = OptimizerStep(OptimizerStep(run.agent, 1), 2),
                          !.pc = "append"]
    /\ UNCHANGED envVars

\* all_rewards.append(total_reward), and the loop goes on
AgentTrainAppend ==
    /\ run.pc = "append"
    /\ run' = [run EXCEPT !.pc = "episode",
                          !.ep = run.ep + 1,
                          !.all_rewards = Append(run.all_rewards, run.total_reward),
                          !.log = Append(run.log, Ended(run))]
    /\ UNCHANGED envVars

\* return all_rewards
AgentTrainReturn ==
    /\ run.pc = "episode"
    /\ run.ep >= run.episodes
    /\ run' = [run EXCEPT !.pc = "returned", !.result = run.all_rewards]
    /\ UNCHANGED envVars

-----------------------------------------------------------------------------
(* The serving layer: backend/main.py *)

Requests == 1 .. MaxRequests

\* payload.episodes: any int passes the request model, a negative one too
EpisodeCounts == -1 .. MaxEpisodes

\* state["tickers"] as the module is loaded
DefaultTickers ==
    <<"AAPL", "NVDA", "MSFT", "GOOG", "AMZN", "TSLA", "META", "AMD", "QCOM", "INTC">>

\* bodies of POST /config/tickers
TickerPayloads == { <<>>, <<"AAPL", "MSFT">>, <<"MSFT", "AAPL">> }

\* total_reward of an episode
EpisodeRewards == {-3, 4}

NoObject == <<>>

\* Agent(num_features=4, num_assets=len(tickers)) followed by load_model():
\* nn.Module starts in training mode; load_model loads the file and calls
\* policy.eval() only when the file exists
NewAgent(tks) == Loaded(AgentInit(Len(agents) + 1, Len(tks)))

ToSet(seq) == {seq[i] : i \in 1 .. Len(seq)}

NoLocals ==
    [kind |-> "none", episodes |-> 0, payload |-> <<>>, saw_training |-> FALSE,
     loader |-> NoObject, agent |-> 0, data |-> "none", env_tickers |-> <<>>,
     ep |-> 0, total_reward |-> 0, loss |-> "none", snap |-> <<>>,
     response |-> "none"]

ServerStarted ==
    /\ state = [loader |-> NoObject, engine |-> NoObject, agent |-> 0,
                tickers |-> DefaultTickers,
                is_training |-> FALSE, training_episode |-> 0,
                training_total |-> 0, training_last_reward |-> 0]
    /\ state_lock = 0
    /\ agents = <<>>
    /\ model_file = [exists |-> FALSE, layers |-> FreshLayers(0)]
    /\ pc = [r \in Requests |-> "idle"]
    /\ loc = [r \in Requests |-> NoLocals]

\* variant: the lock excludes nobody
LockIgnored(r) == TRUE

\* state_lock can be taken by request r
LockFree(r) == state_lock = 0 \/ state_lock = r

Goto(r, where) == pc' = [pc EXCEPT ![r] = where]

\* a request arrives: FastAPI runs the handler on a worker thread
Arrive(r) ==
    /\ pc[r] = "idle"
    /\ \/ \E n \in EpisodeCounts :
            /\ loc' = [loc EXCEPT ![r].kind = "train", ![r].episodes = n]
            /\ Goto(r, "t_enter")
       \/ /\ loc' = [loc EXCEPT ![r].kind = "inference"]
          /\ Goto(r, "i_init")
       \/ \E tks \in TickerPayloads :
            IF tks = <<>>
            THEN \* HTTPException(400): nothing was touched
                 /\ loc' = [loc EXCEPT ![r].kind = "set_tickers", ![r].payload = tks,
                                       ![r].response = "400"]
                 /\ Goto(r, "done")
            ELSE /\ loc' = [loc EXCEPT ![r].kind = "set_tickers", ![r].payload = tks]
                 /\ Goto(r, "s_init")
    /\ UNCHANGED <<state, state_lock, agents, model_file>>

\* variant: the requested list is compared with the current one as a list
InitStateByList(tks) ==
    IF tks # <<>> /\ (state.tickers # tks \/ state.loader = NoObject)
    THEN [state EXCEPT !.tickers = tks, !.loader = tks, !.engine = tks,
                       !.agent = Len(agents) + 1]
    ELSE IF state.loader = NoObject
    THEN [state EXCEPT !.loader = state.tickers, !.engine = state.tickers,
                       !.agent = Len(agents) + 1]
    ELSE state

\* the state dictionary after the body of get_or_init_resources(tks) ...
InitState(tks) ==
    IF tks # <<>> /\ (ToSet(state.tickers) # ToSet(tks) \/ state.loader = NoObject)
    THEN [state EXCEPT !.tickers = tks, !.loader = tks, !.engine = tks,
                       !.agent = Len(agents) + 1]
    ELSE IF state.loader = NoObject
    THEN [state EXCEPT !.loader = state.tickers, !.engine = state.tickers,
                       !.agent = Len(agents) + 1]
    ELSE state

\* ... and the Agent it constructs, if any
InitAgents(tks) ==
    IF InitState(tks).agent # state.agent
    THEN Append(agents, NewAgent(InitState(tks).tickers))
    ELSE agents

\* get_or_init_resources(tks), run entirely under state_lock
get_or_init_resources(r, tks) ==
    /\ LockFree(r)
    /\ state' = InitState(tks)
    /\ agents' = InitAgents(tks)
    /\ loc' = [loc EXCEPT ![r].loader = InitState(tks).loader,
                          ![r].agent = InitState(tks).agent]
    /\ UNCHANGED <<state_lock, model_file>>

\* POST /config/tickers
SetTickers(r) ==
    /\ pc[r] = "s_init"
    /\ LockFree(r)
    /\ state' = InitState(loc[r].payload)
    /\ agents' = InitAgents(loc[r].payload)
    /\ loc' = [loc EXCEPT ![r].loader = InitState(loc[r].payload).loader,
                          ![r].agent = InitState(loc[r].payload).agent,
                          ![r].response = "updated"]
    /\ Goto(r, "done")
    /\ UNCHANGED <<state_lock, model_file>>

\* POST /ai/train: "with state_lock:" and the read of state["is_training"]
TrainAcquire(r) ==
    /\ pc[r] = "t_enter"
    /\ LockFree(r)
    /\ state_lock' = r
    /\ loc' = [loc EXCEPT ![r].saw_training = state.is_training]
    /\ Goto(r, "t_locked")
    /\ UNCHANGED <<state, agents, model_file>>

\* the rest of the with block: reject, or mark training as started
TrainTestAndSet(r) ==
    /\ pc[r] = "t_locked"
    /\ IF loc[r].saw_training
       THEN /\ loc' = [loc EXCEPT ![r].response = "already_training"]
            /\ Goto(r, "done")
            /\ UNCHANGED state
       ELSE /\ state' = [state EXCEPT !.is_training = TRUE,
                                      !.training_episode = 0,
                                      !.training_total = loc[r].episodes,
                                      !.training_last_reward = 0]
            /\ Goto(r, "t_init")
            /\ UNCHANGED loc
    /\ state_lock' = 0
    /\ UNCHANGED <<agents, model_file>>

\* loader, _, agent = get_or_init_resources()
TrainInit(r) ==
    /\ pc[r] = "t_init"
    /\ get_or_init_resources(r, <<>>)
    /\ Goto(r, "t_fetch")

\* data = loader.fetch_history(period="1y"): a frame, an empty frame, or a raise
TrainFetch(r) ==
    /\ pc[r] = "t_fetch"
    /\ \/ \E d \in {"ok", "empty"} :
            /\ loc' = [loc EXCEPT ![r].data = d]
            /\ Goto(r, "t_dispatch")
       \/ /\ loc' = [loc EXCEPT ![r].response = "500"]
          /\ Goto(r, "done")
    /\ UNCHANGED <<state, state_lock, agents, model_file>>

\* background_tasks.add_task(_train_task); the response is returned and the
\* task then runs on the worker thread
TrainDispatch(r) ==
    /\ pc[r] = "t_dispatch"
    /\ loc' = [loc EXCEPT ![r].response = "training_started"]
    /\ Goto(r, "k_start")
    /\ UNCHANGED <<state, state_lock, agents, model_file>>

\* _train_task: env = MarketGraphEnv(state["tickers"], data); agent.policy.train()
TaskStart(r) ==
    /\ pc[r] = "k_start"
    /\ loc' = [loc EXCEPT ![r].env_tickers = state.tickers, ![r].ep = 0]
    /\ agents' = [agents EXCEPT ![loc[r].agent].training = TRUE]
    /\ Goto(r, IF loc[r].episodes > 0 THEN "k_rollout" ELSE "k_save")
    /\ UNCHANGED <<state, state_lock, model_file>>

\* one episode's rollout and loss (finite, NaN or infinite); an empty frame
\* makes reset/step raise, which ends the task
TaskRollout(r) ==
    /\ pc[r] = "k_rollout"
    /\ IF loc[r].data = "empty"
       THEN /\ Goto(r, "k_failed")
            /\ UNCHANGED loc
       ELSE /\ \E rew \in EpisodeRewards, l \in Losses :
                loc' = [loc EXCEPT ![r].total_reward = rew, ![r].loss = l]
            /\ Goto(r, "k_opt1")
    /\ UNCHANGED <<state, state_lock, agents, model_file>>

\* zero_grad, loss.backward(), clip_grad_norm_ and agent.optimizer.step(),
\* whatever the loss is; step() updates the parameter tensors one after the other
TaskOptimizerStep(r) ==
    /\ pc[r] \in {"k_opt1", "k_opt2"}
    /\ LET k == IF pc[r] = "k_opt1" THEN 1 ELSE 2
           a == loc[r].agent
       IN  agents' = [agents EXCEPT ![a] = OptimizerStep(agents[a], k)]
    /\ Goto(r, IF pc[r] = "k_opt1" THEN "k_opt2" ELSE "k_status")
    /\ UNCHANGED <<state, state_lock, model_file, loc>>

\* with state_lock: training_episode = ep + 1; training_last_reward = total_reward
TaskStatus(r) ==
    /\ pc[r] = "k_status"
    /\ LockFree(r)
    /\ state' = [state EXCEPT !.training_episode = loc[r].ep + 1,
                              !.training_last_reward = loc[r].total_reward]
    /\ loc' = [loc EXCEPT ![r].ep = loc[r].ep + 1, ![r].loss = "none"]
    /\ Goto(r, IF loc[r].ep + 1 < loc[r].episodes THEN "k_rollout" ELSE "k_save")
    /\ UNCHANGED <<state_lock, agents, model_file>>

\* agent.save_model()
TaskSave(r) ==
    /\ pc[r] = "k_save"
    /\ model_file' = [exists |-> TRUE, layers |-> agents[loc[r].agent].layers]
    /\ Goto(r, "k_clear")
    /\ UNCHANGED <<state, state_lock, agents, loc>>

\* with state_lock: state["is_training"] = False
TaskClear(r) ==
    /\ pc[r] = "k_clear"
    /\ LockFree(r)
    /\ state' = [state EXCEPT !.is_training = FALSE]
    /\ Goto(r, "k_log")
    /\ UNCHANGED <<state_lock, agents, model_file, loc>>

\* add_log("SUCCESS", ...); print(...): the task returns
TaskReturn(r) ==
    /\ pc[r] = "k_log"
    /\ Goto(r, "done")
    /\ UNCHANGED <<state, state_lock, agents, model_file, loc>>

\* POST /ai/inference: loader, engine, agent = get_or_init_resources()
InferInit(r) ==
    /\ pc[r] = "i_init"
    /\ get_or_init_resources(r, <<>>)
    /\ Goto(r, "i_fetch")

\* data = loader.fetch_history(period="6mo"); an empty frame is a 500
InferFetch(r) ==
    /\ pc[r] = "i_fetch"
    /\ \/ /\ loc' = [loc EXCEPT ![r].data = "ok"]
          /\ Goto(r, "i_conv1")
       \/ /\ loc' = [loc EXCEPT ![r].data = "empty", ![r].response = "500"]
          /\ Goto(r, "done")
    /\ UNCHANGED <<state, state_lock, agents, model_file>>

\* agent.get_action(obs, training=False): the forward pass reads conv1, then conv2
InferForward(r) ==
    /\ pc[r] \in {"i_conv1", "i_conv2"}
    /\ LET k == IF pc[r] = "i_conv1" THEN 1 ELSE 2
       IN  loc' = [loc EXCEPT ![r].snap = Append(loc[r].snap, agents[loc[r].agent].layers[k]),
                              ![r].response = IF k = 2 THEN "ok" ELSE "none"]
    /\ Goto(r, IF pc[r] = "i_conv1" THEN "i_conv2" ELSE "done")
    /\ UNCHANGED <<state, state_lock, agents, model_file>>

-----------------------------------------------------------------------------
(* Specifications *)

\* no environment is under test while the serving layer runs
NoEnvironment ==
    /\ tickers = <<>>
    /\ data = [len |-> 0, close |-> <<>>, index |-> <<>>]
    /\ window_size = 0
    /\ max_steps = 0
    /\ benchmark_prices = [is_none |-> TRUE, close |-> <<>>]
    /\ current_step = 0
    /\ portfolio_value = 0
    /\ benchmark_value = 0
    /\ current_weights = [num |-> <<>>, den |-> 1]
    /\ agent_returns = <<>>
    /\ benchmark_returns = <<>>
    /\ last = NoCall("none", 0)

\* no GraphEngine and no Agent is under test either
NoGraphEngine == engine = NoEngine /\ graph = NoGraph

NoAgentCalls == call = NoAgentCall /\ saver = NoAgent /\ run = NoRun

Init == ServerStarted /\ NoEnvironment /\ NoGraphEngine /\ NoAgentCalls

DoArrive == (\E r \in Requests : Arrive(r)) /\ UNCHANGED <<envVars, graphVars, agtVars>>

DoSetTickers == (\E r \in Requests : SetTickers(r)) /\ UNCHANGED <<envVars, graphVars, agtVars>>

DoTrainAcquire == (\E r \in Requests : TrainAcquire(r)) /\ UNCHANGED <<envVars, graphVars, agtVars>>

DoTrainTestAndSet == (\E r \in Requests : TrainTestAndSet(r)) /\ UNCHANGED <<envVars, graphVars, agtVars>>

DoTrainInit == (\E r \in Requests : TrainInit(r)) /\ UNCHANGED <<envVars, graphVars, agtVars>>

DoTrainFetch == (\E r \in Requests : TrainFetch(r)) /\ UNCHANGED <<envVars, graphVars, agtVars>>

DoTrainDispatch == (\E r \in Requests : TrainDispatch(r)) /\ UNCHANGED <<envVars, graphVars, agtVars>>

DoTaskStart == (\E r \in Requests : TaskStart(r)) /\ UNCHANGED <<envVars, graphVars, agtVars>>

DoTaskRollout == (\E r \in Requests : TaskRollout(r)) /\ UNCHANGED <<envVars, graphVars, agtVars>>

DoTaskOptimizerStep == (\E r \in Requests : TaskOptimizerStep(r)) /\ UNCHANGED <<envVars, graphVars, agtVars>>

DoTaskStatus == (\E r \in Requests : TaskStatus(r)) /\ UNCHANGED <<envVars, graphVars, agtVars>>

DoTaskSave == (\E r \in Requests : TaskSave(r)) /\ UNCHANGED <<envVars, graphVars, agtVars>>

DoTaskClear == (\E r \in Requests : TaskClear(r)) /\ UNCHANGED <<envVars, graphVars, agtVars>>

DoTaskReturn == (\E r \in Requests : TaskReturn(r)) /\ UNCHANGED <<envVars, graphVars, agtVars>>

DoInferInit == (\E r \in Requests : InferInit(r)) /\ UNCHANGED <<envVars, graphVars, agtVars>>

DoInferFetch == (\E r \in Requests : InferFetch(r)) /\ UNCHANGED <<envVars, graphVars, agtVars>>

DoInferForward == (\E r \in Requests : InferForward(r)) /\ UNCHANGED <<envVars, graphVars, agtVars>>

Next ==
    \/ DoArrive
    \/ DoSetTickers
    \/ DoTrainAcquire
    \/ DoTrainTestAndSet
    \/ DoTrainInit
    \/ DoTrainFetch
    \/ DoTrainDispatch
    \/ DoTaskStart
    \/ DoTaskRollout
    \/ DoTaskOptimizerStep
    \/ DoTaskStatus
    \/ DoTaskSave
    \/ DoTaskClear
    \/ DoTaskReturn
    \/ DoInferInit
    \/ DoInferFetch
    \/ DoInferForward

Spec == Init /\ [][Next]_vars

EnvInit == Constructed /\ ServerStarted /\ NoGraphEngine /\ NoAgentCalls

Step == (\E action \in Actions(n_assets) : step(action)) /\ UNCHANGED <<srvVars, graphVars, agtVars>>

Reset == reset /\ UNCHANGED <<srvVars, graphVars, agtVars>>

EnvNext == Step \/ Reset

EnvSpec == EnvInit /\ [][EnvNext]_vars

\* the graph builder on its own: engines are constructed and asked for graphs
Construct ==
    /\ \E version \in EngineVersions, tks \in GraphUniverses,
          threshold \in Thresholds, min_neighbors \in MinNeighbors :
            GraphEngineInit(version, tks, threshold, min_neighbors)
    /\ UNCHANGED <<envVars, srvVars, agtVars>>

BuildGraph ==
    /\ graph = NoGraph
    /\ \E frame \in Frames(Len(engine.tickers)), window \in WindowSizes :
            build_graph(frame, window)
    /\ UNCHANGED <<envVars, srvVars, agtVars>>

GraphNext == Construct \/ BuildGraph

GraphSpec == Init /\ [][GraphNext]_vars

\* the Agent on its own: objects are constructed, trained, saved, loaded and
\* asked for actions
agentFrame == <<envVars, graphVars, state, state_lock, pc, loc, run>>

NewAgentObject == (\E n \in AgentSizes : Agent(n)) /\ UNCHANGED agentFrame

Train ==
    /\ \E a \in 1 .. Len(agents), losses \in LossSeqs : train(a, losses)
    /\ UNCHANGED agentFrame

SaveModel == (\E a \in 1 .. Len(agents) : save_model(a)) /\ UNCHANGED agentFrame

LoadModel == (\E a \in 1 .. Len(agents) : load_model(a)) /\ UNCHANGED agentFrame

GetAction ==
    /\ \E a \in 1 .. Len(agents), obs \in Observations, training \in BOOLEAN :
            get_action(a, obs, training)
    /\ UNCHANGED agentFrame

AgentNext == NewAgentObject \/ Train \/ SaveModel \/ LoadModel \/ GetAction

AgentSpec == Init /\ [][AgentNext]_vars

\* Agent.train on an environment: a fresh Agent for the environment's universe
\* is trained once
trainFrame == <<srvVars, graphVars, call, saver>>

AgentTrainInit ==
    /\ \E tk \in TrainUniverses, w \in WindowSizes, k \in TrainEpisodeSteps,
          p \in PricePatterns, m \in BenchmarkModes :
            ConstructedOn(tk, w, k, p, m)
    /\ ServerStarted
    /\ NoGraphEngine
    /\ call = NoAgentCall
    /\ saver = NoAgent
    /\ run = [NoRun EXCEPT !.agent = AgentInit(1, Len(tickers))]

DoAgentTrainBegin == (\E n \in NumEpisodes : AgentTrainBegin(n)) /\ UNCHANGED trainFrame

DoAgentTrainReset == AgentTrainReset /\ UNCHANGED trainFrame

DoAgentTrainRollout == AgentTrainRollout /\ UNCHANGED trainFrame

DoAgentTrainLoss == AgentTrainLoss /\ UNCHANGED trainFrame

DoAgentTrainGuard == AgentTrainGuard /\ UNCHANGED trainFrame

DoAgentTrainUpdate == AgentTrainUpdate /\ UNCHANGED trainFrame

DoAgentTrainAppend == AgentTrainAppend /\ UNCHANGED trainFrame

DoAgentTrainReturn == AgentTrainReturn /\ UNCHANGED trainFrame

AgentTrainNext ==
    \/ DoAgentTrainBegin
    \/ DoAgentTrainReset
    \/ DoAgentTrainRollout
    \/ DoAgentTrainLoss
    \/ DoAgentTrainGuard
    \/ DoAgentTrainUpdate
    \/ DoAgentTrainAppend
    \/ DoAgentTrainReturn

TrainSpec == AgentTrainInit /\ [][AgentTrainNext]_vars

-----------------------------------------------------------------------------
(* Properties of the environment *)

Stepped == last.op = "step"
RaisedError == last.op \in {"IndexError", "ValueError"}
LongEnough == data.len >= window_size + 2

\* C3: for a history of length L >= W + 2 every step advances t by exactly 1,
\* the terminal flag is returned by the step that brings t to L - 1 and by no
\* earlier one, so an episode has exactly L - W - 1 = max_steps steps, and
\* prices are read at rows t and t + 1 <= L - 1 only: no read is out of range
\* before the terminal flag has been returned.
C3_EpisodeLength ==
    LongEnough =>
        /\ current_step = window_size + Len(agent_returns)
        /\ max_steps = data.len - window_size - 1
        /\ Len(agent_returns) <= max_steps
        /\ Stepped =>
              /\ current_step = last.t0 + 1
              /\ last.terminated <=> Len(agent_returns) = max_steps
              /\ last.terminated <=> current_step >= data.len - 1
              /\ {last.t0, last.t0 + 1} \subseteq DOMAIN data.close
        /\ last.op = "IndexError" => Len(agent_returns) = max_steps

\* a full episode of MaxSteps steps has just returned the terminal flag
C3_Witness ==
    /\ LongEnough /\ Stepped /\ last.terminated
    /\ Len(agent_returns) = MaxSteps

\* C4 as stated: the state with t = L - 2 is a terminal state, in which the
\* terminal flag has been returned.
C4_TerminalAtLenMinus2 ==
    (LongEnough /\ Stepped /\ current_step = data.len - 2) => last.terminated

\* C4 as amended: t starts at W, and the environment is terminal when t
\* reaches L - 1: the flag is returned exactly by the step that leaves
\* t = L - 1, and at t = L - 2 the episode is not over.
C4_TerminalAtLenMinus1 ==
    LongEnough =>
        /\ last.op \in {"init", "reset"} => current_step = window_size
        /\ current_step <= data.len - 1
        /\ Stepped => (last.terminated <=> current_step = data.len - 1)
        /\ current_step = data.len - 2 => ~last.terminated

\* a step has brought t to L - 2 and returned terminated = False
C4_Witness ==
    /\ LongEnough /\ Stepped
    /\ current_step = data.len - 2
    /\ ~last.terminated

\* C5: reset() puts the environment back in its freshly constructed state,
\* whatever happened before.
C5_ResetRestores ==
    last.op = "reset" =>
        /\ current_step = window_size
        /\ portfolio_value = StartingCapital
        /\ benchmark_value = StartingCapital
        /\ current_weights = Uniform(n_assets)
        /\ agent_returns = <<>>
        /\ benchmark_returns = <<>>

\* reset() was called on an environment whose episode had terminated
C5_Witness ==
    /\ last.op = "reset" /\ LongEnough
    /\ last.t0 = data.len - 1

\* C6: after reset() and after any step with an action vector of length N the
\* current weights sum to 1 and every entry is strictly positive.
C6_WeightsOnOpenSimplex ==
    (last.op \in {"init", "reset"} \/ (Stepped /\ Len(last.action) = n_assets)) =>
        /\ Len(current_weights.num) = n_assets
        /\ SumSeq(current_weights.num) = current_weights.den
        /\ \A i \in 1 .. n_assets : current_weights.num[i] > 0

\* C7: step with an action vector whose length differs from N always raises:
\* it returns no reward and does not advance t.
C7_LengthMismatchRaises ==
    (last.op \notin {"init", "reset"} /\ Len(last.action) # n_assets) =>
        /\ RaisedError
        /\ current_step = last.t0

\* C8: the reward of every step is the sum of exactly three terms: the excess
\* return term, minus the volatility penalty when active, plus the consistency
\* bonus when the 5-step mean excess return is positive.
C8_RewardIsThreeTerms ==
    Stepped =>
        last.reward =
            ExcessTerm(last.port_return, last.bench_return)
            - (IF VolActive(agent_returns) THEN VolPenalty(agent_returns) ELSE 0)
            + (IF BonusActive(agent_returns, benchmark_returns)
               THEN ConsistencyBonus(agent_returns, benchmark_returns) ELSE 0)

\* C9: the volatility penalty is part of the reward of the k-th step of an
\* episode (counting that step) if and only if k >= 20.
C9_VolPenaltyFromStep20 ==
    Stepped =>
        last.reward =
              ExcessTerm(last.port_return, last.bench_return)
              - SwingPenalty(last.port_return)
              - (IF Len(agent_returns) >= VolWindow
                 THEN VolPenalty(agent_returns) ELSE 0)
              + (IF BonusActive(agent_returns, benchmark_returns)
                 THEN ConsistencyBonus(agent_returns, benchmark_returns) ELSE 0)

\* the benchmark has no price for the date of row t or of row t + 1
BenchmarkMissing(t) ==
    \/ benchmark_prices.is_none
    \/ data.index[t] \notin DOMAIN benchmark_prices.close
    \/ data.index[t + 1] \notin DOMAIN benchmark_prices.close

C28_StepAfterTerminalChangesNothing ==
    [][(Stepped /\ last.terminated /\ last'.op # "reset") =>
          /\ last'.op = "IndexError"
          /\ UNCHANGED <<current_step, portfolio_value, benchmark_value,
                         agent_returns, benchmark_returns, current_weights>>]_vars

\* C30: for a history of length L >= W + 2, every snapshot returned by reset
\* and by every step up to and including the terminal one is built from a
\* window of exactly W rows, rows t-W .. t-1 with W <= t <= L-1, so it is
\* never the zero snapshot of a short window.
C30_WindowAlwaysFull ==
    (LongEnough /\ last.op \in {"reset", "step"}) =>
        /\ window_size <= current_step
        /\ current_step <= data.len - 1
        /\ last.obs = [first |-> current_step - window_size,
                       rows  |-> window_size,
                       zero  |-> FALSE]

\* the terminal step of an episode of MaxSteps steps returned a snapshot of
\* the last W rows before the final one
C30_Witness ==
    /\ LongEnough
    /\ Stepped
    /\ last.terminated
    /\ max_steps = MaxSteps
    /\ last.obs.first = MaxSteps
    /\ last.obs.rows = window_size
    /\ ~last.obs.zero

-----------------------------------------------------------------------------
(* Properties of the serving layer *)

\* request r's background task is running its training job
Training(r) ==
    pc[r] \in {"k_start", "k_rollout", "k_opt1", "k_opt2", "k_status", "k_save", "k_clear"}

\* request r was accepted and its job has not ended
Accepted(r) == Training(r) \/ pc[r] \in {"t_init", "t_fetch", "t_dispatch"}

\* C1: at most one background training task is active at any time; the test
\* and the set of is_training are atomic under state_lock (what a request read
\* is still true when it acts on it); a request that finds is_training set
\* returns "already_training", dispatches nothing and leaves the status fields
\* as they were.
C1_SingleTrainingTask ==
    /\ [](/\ Cardinality({r \in Requests : Accepted(r)}) <= 1
          /\ \A r \in Requests :
                /\ Accepted(r) => state.is_training
                /\ pc[r] = "t_locked" => loc[r].saw_training = state.is_training
                /\ loc[r].response = "already_training" => pc[r] = "done")
    /\ [][\A r \in Requests :
            (pc[r] = "t_locked" /\ pc'[r] # "t_locked" /\ state.is_training) =>
                /\ loc'[r].response = "already_training"
                /\ pc'[r] = "done"
                /\ state' = state
                /\ \A q \in Requests : Training(q)' <=> Training(q)]_vars

\* a request was turned away while another request's task is training
C1_Witness ==
    \E r, q \in Requests :
        /\ loc[r].response = "already_training"
        /\ Training(q)
        /\ pc[q] = "k_opt2"

\* C24: every accepted /ai/train request is followed by is_training becoming
\* false again, whether the job runs to completion or the history fetch, the
\* environment construction or an episode raises: the flag is never left set
\* with no job that will clear it, turning every later request away.
C24_TrainingFlagReleased ==
    state.is_training => \E r \in Requests : Accepted(r)

\* C25: within one training request the ticker list the environment is built
\* on, the loader the price data came from and the agent belong to the same
\* asset universe, under any interleaving with set_tickers requests.
C25_OneUniversePerRequest ==
    \A r \in Requests :
        (loc[r].kind = "train" /\ loc[r].env_tickers # <<>>) =>
            /\ loc[r].env_tickers = loc[r].loader
            /\ agents[loc[r].agent].num_assets = Len(loc[r].env_tickers)

\* C26: the training status record is consistent in every reachable state:
\* 0 <= training_episode <= training_total; training_episode never decreases
\* while is_training is true; it is reset to 0 only when a new job is
\* accepted; and when a job ends (is_training goes from true to false)
\* training_episode equals training_total.
C26_StatusRecordConsistent ==
    /\ [](0 <= state.training_episode
          /\ state.training_episode <= state.training_total)
    /\ [][/\ (state.is_training /\ state'.is_training) =>
                state'.training_episode >= state.training_episode
          /\ (state.training_episode # 0 /\ state'.training_episode = 0) =>
                (~state.is_training /\ state'.is_training)
          /\ (state.is_training /\ ~state'.is_training) =>
                state'.training_episode = state'.training_total]_vars

\* C2: an evaluation-mode get_action never overlaps an optimizer step on the
\* same Agent: the parameters an inference read are all from before or all
\* from after every optimizer step.
C2_InferenceSnapshotUntorn ==
    \A r \in Requests :
        Len(loc[r].snap) = 2 => loc[r].snap[1] = loc[r].snap[2]

-----------------------------------------------------------------------------
(* Properties of the graph builder *)

\* the last call was a build_graph on a frame of closes
BuiltGraph == graph.op = "build_graph" /\ graph.has_close

\* the targets of node i's edges
NeighborsOf(i) ==
    {graph.edge_list[k][2] :
        k \in {e \in 1 .. Len(graph.edge_list) : graph.edge_list[e][1] = i}}

\* C11: for every build_graph call with sufficient history and universe size
\* N >= K + 1 (K = min_neighbors), every node is the source of at least K
\* edges and no edge is a self-loop, whatever the correlation matrix.
C11_AtLeastKNeighbors ==
    (/\ BuiltGraph
     /\ engine.version = "backend"
     /\ graph.rows >= graph.window
     /\ Len(engine.tickers) >= engine.min_neighbors + 1) =>
        /\ graph.raised = "none"
        /\ \A i \in 1 .. Len(engine.tickers) :
              Cardinality(NeighborsOf(i)) >= engine.min_neighbors
        /\ \A k \in 1 .. Len(graph.edge_list) :
              graph.edge_list[k][1] # graph.edge_list[k][2]

\* four assets, K = 3, and no pair above the threshold: every edge comes from
\* the fallback
C11_Witness ==
    /\ BuiltGraph
    /\ engine.version = "backend"
    /\ graph.rows >= graph.window
    /\ Len(engine.tickers) = 4
    /\ engine.min_neighbors = 3
    /\ \A i, j \in 1 .. 4 : i # j => Abs(graph.corr[i][j]) <= engine.threshold
    /\ Len(graph.edge_list) = 12

\* C12: when the price history has fewer rows than window_size, build_graph
\* raises nothing and returns an all-zero N x 4 feature matrix, an empty edge
\* list and empty edge weights, for every N.
C12_ShortHistoryGivesZeroSnapshot ==
    (BuiltGraph /\ graph.rows < graph.window) =>
        /\ graph.raised = "none"
        /\ graph.x = [rows |-> Len(engine.tickers), cols |-> 4, zeros |-> TRUE]
        /\ graph.edge_list = <<>>
        /\ graph.outputs = 3
        /\ graph.edge_weights = <<>>

\* C19: an empty asset universe is never configured: set_tickers with an empty
\* list answers 400 and leaves the shared state alone, and no GraphEngine or
\* Agent for zero tickers comes into being.
C19_EmptyUniverseRejected ==
    /\ \A r \in Requests :
          (loc[r].kind = "set_tickers" /\ loc[r].payload = <<>>) =>
              loc[r].response = "400"
    /\ state.tickers # <<>>
    /\ engine # NoEngine => engine.tickers # <<>>
    /\ \A a \in 1 .. Len(agents) : agents[a].num_assets > 0

\* build_graph of the backend engine ran its neighbour loop
BuiltEdges ==
    /\ BuiltGraph
    /\ engine.version = "backend"
    /\ graph.raised = "none"
    /\ graph.rows >= graph.window

\* node i had fewer than K neighbours above the threshold
UsedFallback(i) ==
    Len(AboveThreshold(AbsRow(graph.corr[i]), i, engine.threshold))
        < engine.min_neighbors

\* the K other assets with the highest |corr(i, j)|, an asset with the
\* smaller index first among equal ones
PreferredFallback(abs_row, i, min_neighbors) ==
    LET others == (1 .. Len(abs_row)) \ {i}
        before(j) == {k \in others : \/ abs_row[k] > abs_row[j]
                                     \/ abs_row[k] = abs_row[j] /\ k < j}
    IN  {j \in others : Cardinality(before(j)) < min_neighbors}

\* C21: when node i has fewer than K neighbours above the threshold, the
\* fallback selects the K other assets with the highest |corr(i, j)|, and
\* among assets with equal |corr(i, j)| the one with the smaller original
\* index.
C21_FallbackPrefersSmallerIndex ==
    BuiltEdges =>
        \A i \in 1 .. Len(engine.tickers) :
            UsedFallback(i) =>
                NeighborsOf(i) = PreferredFallback(AbsRow(graph.corr[i]), i,
                                                   engine.min_neighbors)

\* the edge (i, j) is in the edge list with weight w
HasEdge(i, j, w) ==
    \E k \in 1 .. Len(graph.edge_list) :
        graph.edge_list[k] = <<i, j>> /\ graph.edge_weights[k] = w

\* C27: the fallback never drops a threshold edge: for every pair i # j with
\* |corr(i, j)| > T both (i, j) and (j, i) are emitted, each weighted with the
\* signed correlation, so an edge without its reverse joins a pair at or below
\* the threshold and comes from a node that used the fallback.
C27_ThresholdEdgesKept ==
    BuiltEdges =>
        /\ \A i, j \in 1 .. Len(engine.tickers) :
              (i # j /\ Abs(graph.corr[i][j]) > engine.threshold) =>
                  /\ HasEdge(i, j, graph.corr[i][j])
                  /\ HasEdge(j, i, graph.corr[i][j])
        /\ \A k \in 1 .. Len(graph.edge_list) :
              LET i == graph.edge_list[k][1]
                  j == graph.edge_list[k][2]
              IN  /\ graph.edge_weights[k] = graph.corr[i][j]
                  /\ <<j, i>> \notin {graph.edge_list[e] : e \in 1 .. Len(graph.edge_list)} =>
                        /\ Abs(graph.corr[i][j]) <= engine.threshold
                        /\ UsedFallback(i)

\* a node with one neighbour above the threshold and K = 2 took the fallback,
\* its threshold edge has a negative weight, and some edge has no reverse
C27_Witness ==
    /\ BuiltEdges
    /\ engine.min_neighbors = 2
    /\ \E i, j \in 1 .. Len(engine.tickers) :
          /\ UsedFallback(i)
          /\ i # j
          /\ Abs(graph.corr[i][j]) > engine.threshold
          /\ graph.corr[i][j] < 0
          /\ HasEdge(i, j, graph.corr[i][j])
    /\ \E k \in 1 .. Len(graph.edge_list) :
          <<graph.edge_list[k][2], graph.edge_list[k][1]>>
              \notin {graph.edge_list[e] : e \in 1 .. Len(graph.edge_list)}

-----------------------------------------------------------------------------
(* Properties of the Agent *)

\* the last call was get_action in evaluation mode
EvalCall == call.op = "get_action" /\ ~call.training

\* the actions get_action(obs, training=False) can return on this Agent
EvalActions(agent, obs) ==
    {Mean(Alphas(Forward(agent.layers, obs, mask))) : mask \in Masks(agent)}

\* C13: in the serving layer's training task (and in Agent.train), an episode
\* whose accumulated loss is NaN or infinite applies no optimizer step: the
\* Agent's parameters and optimizer state stay as they were.
C13_NonFiniteLossSkipsUpdate ==
    [][\A r \in Requests :
          (pc[r] \in {"k_opt1", "k_opt2"} /\ loc[r].loss \in {"nan", "inf"}) =>
              agents'[loc[r].agent] = agents[loc[r].agent]]_vars

\* C14: two evaluation-mode get_action calls on the same Agent with the same
\* parameters and the same snapshot return the same weights.
C14_EvaluationIsDeterministic ==
    [][(/\ EvalCall
        /\ call'.op = "get_action" /\ ~call'.training
        /\ call'.agent = call.agent
        /\ call'.obs = call.obs
        /\ call'.before.layers = call.before.layers) =>
            call'.action = call.action]_vars

\* C15: after A's save_model and the load_model of a freshly constructed B
\* (another object: the saved weights were not initialised in B), B's
\* evaluation-mode action for any snapshot is A's evaluation-mode action for it.
C15_RoundTripPreservesAction ==
    (/\ call.op = "load_model"
     /\ call.file_existed
     /\ call.before = AgentInit(call.agent, call.before.num_assets)
     /\ saver.layers[1][1] # call.agent) =>
        \A obs \in Observations :
            EvalActions(agents[call.agent], obs) = EvalActions(saver, obs)

\* C16: save_model followed by load_model restores the network weights and
\* the optimizer's state of the saving Agent in the loading Agent.
C16_RoundTripRestoresParameters ==
    (call.op = "load_model" /\ call.file_existed) =>
        /\ agents[call.agent].layers = saver.layers
        /\ agents[call.agent].optimizer = saver.optimizer

\* C17: load_model on a path at which nothing was saved raises nothing and
\* leaves the Agent's network parameters and optimizer state as they were.
C17_MissingFileLeavesAgent ==
    (call.op = "load_model" /\ ~call.file_existed) =>
        /\ call.raised = "none"
        /\ agents[call.agent].layers = call.before.layers
        /\ agents[call.agent].optimizer = call.before.optimizer

\* a trained Agent called load_model while no file existed
C17_Witness ==
    /\ call.op = "load_model"
    /\ ~call.file_existed
    /\ call.before.optimizer = <<1, 1>>

\* C18: the Dirichlet concentrations softplus(logits) + 1 are positive for
\* all logits, and every training-mode action has positive entries that sum
\* to 1.
C18_SampledActionOnSimplex ==
    call.op = "get_action" =>
        /\ call.raised = "none"
        /\ \A i \in 1 .. Len(call.alphas) : call.alphas[i] > 0
        /\ call.training =>
              /\ Len(call.action.num) = call.obs.n
              /\ \A i \in 1 .. call.obs.n : call.action.num[i] > 0
              /\ call.action.den > 0
              /\ SumSeq(call.action.num) = call.action.den

\* a training-mode call whose logits hold the value at which softplus is 0,
\* and whose sample is not the uniform vector
C18_Witness ==
    /\ call.op = "get_action"
    /\ call.training
    /\ call.raised = "none"
    /\ \E i \in 1 .. Len(call.logits) : Softplus(call.logits[i]) = 0
    /\ call.action.num # Ones(call.obs.n)

-----------------------------------------------------------------------------
(* Properties of Agent.train *)

\* the environment is inside an episode: reset, and not yet at the terminal step
EpisodeInProgress ==
    last.op = "reset" \/ (last.op = "step" /\ ~last.terminated)

\* the episodes ended so far whose loss was NaN or infinite
SkippedEpisodes ==
    Len(SelectSeq(run.log, LAMBDA e : e.loss \in {"nan", "inf"}))

\* the total rewards of the episodes ended so far whose loss was finite
AppliedTotals ==
    LET applied == SelectSeq(run.log, LAMBDA e : e.loss = "finite")
    IN  [k \in 1 .. Len(applied) |-> applied[k].total_reward]

\* C22: in Agent.train the parameters change only between episodes: no
\* optimizer step occurs while an episode is in progress, every terminated
\* episode with a finite loss is followed by exactly one optimizer step before
\* the next reset, and after train(env, n) the number of optimizer steps is n
\* minus the number of skipped (NaN / Inf) episodes.
C22_UpdatesOnlyBetweenEpisodes ==
    /\ [](/\ run.pc \in {"episode", "returned"} =>
                /\ run.agent.optimizer[1] = Len(run.log) - SkippedEpisodes
                /\ run.agent.optimizer[2] = Len(run.log) - SkippedEpisodes
          /\ run.pc = "returned" =>
                /\ Len(run.log) = run.episodes
                /\ run.agent.optimizer[1] = run.episodes - SkippedEpisodes
          /\ EpisodeInProgress => run.pc \in {"rollout", "raised"})
    /\ [][(run'.agent.layers # run.agent.layers
           \/ run'.agent.optimizer # run.agent.optimizer) =>
              /\ ~EpisodeInProgress
              /\ last.op = "step" /\ last.terminated
              /\ run.loss = "finite"
              /\ run'.agent = OptimizerStep(OptimizerStep(run.agent, 1), 2)
              /\ UNCHANGED envVars]_vars

\* a call for two episodes of three steps returned: the first episode was
\* skipped for an infinite loss, the second got its optimizer step
C22_Witness ==
    /\ run.pc = "returned"
    /\ run.episodes = 2
    /\ run.log[1].loss = "inf"
    /\ run.log[2].loss = "finite"
    /\ run.log[2].steps = 3
    /\ run.agent.optimizer = <<1, 1>>

\* the returns of the current episode have been computed
ReturnsComputed == run.pc \in {"guard", "update", "append"}

\* C23: the return sequence used for the loss is the backward discounted
\* accumulation R_k = r_k + gamma * R_{k+1}, with R past the last step = 0,
\* and it is z-score normalised (zero mean, unit sample deviation) if and only
\* if the episode has more than one step; for a one-step episode the loss is
\* computed from the raw single reward.
C23_ReturnsDiscountedAndNormalized ==
    ReturnsComputed =>
        LET n == Len(run.rewards)
            R == run.returns_list
            z == run.returns.z
        IN  /\ Len(R) = n
            /\ \A k \in 1 .. n :
                  R[k] = run.rewards[k] + Discount(IF k = n THEN 0 ELSE R[k + 1])
            /\ run.returns.normalized <=> n > 1
            /\ n = 1 => run.returns = [NoReturns EXCEPT !.values = <<run.rewards[1]>>]
            /\ n > 1 =>
                  /\ ~run.returns.nan
                  /\ Len(z) = n
                  /\ \A k \in 1 .. n : z[k].sign = Sign(n * R[k] - SumSeq(R))
                  /\ \A j, k \in 1 .. n : z[j].den = z[k].den
                  /\ IF \A k \in 1 .. n : R[k] = R[1]
                     THEN \A k \in 1 .. n : z[k].num = 0
                     ELSE SumSeq([k \in 1 .. n |-> z[k].num]) = (n - 1) * z[1].den

\* a three-step episode with a reward at the last step: the first return
\* differs from the first reward, and a normalised return is negative
C23_Witness ==
    /\ ReturnsComputed
    /\ Len(run.rewards) = 3
    /\ run.rewards[3] # 0
    /\ run.returns_list[1] # run.rewards[1]
    /\ run.returns.normalized
    /\ \E k \in 1 .. 3 : run.returns.z[k].sign = -1

\* C29: Agent.train(env, n) returns a reward history containing, in episode
\* order, the total reward of exactly those episodes whose optimizer step was
\* applied: its length is n when no episode is skipped and n minus the number
\* of NaN / Inf-skipped episodes otherwise.
C29_RewardHistoryOfAppliedEpisodes ==
    run.pc = "returned" =>
        /\ run.result = AppliedTotals
        /\ Len(run.result) = run.agent.optimizer[1]
        /\ Len(run.result) = run.episodes - SkippedEpisodes
        /\ SkippedEpisodes = 0 => Len(run.result) = run.episodes

\* two episodes with different total rewards: the first was skipped for a NaN
\* loss, and the history returned holds the second one's total only
C29_Witness ==
    /\ run.pc = "returned"
    /\ run.episodes = 2
    /\ run.log[1].loss = "nan"
    /\ run.log[2].loss = "finite"
    /\ run.log[1].total_reward # run.log[2].total_reward
    /\ run.result = <<run.log[2].total_reward>>

-----------------------------------------------------------------------------
(* Properties of POST /config/tickers *)

\* request r's set_tickers handler returns in this step
SetTickersReturns(r) == pc[r] = "s_init" /\ pc'[r] = "done"

\* C20 as claimed: when set_tickers(T) returns "updated", the state's ticker
\* list is T, in T's order, and loader, engine and agent were built for T.
C20_StateIsRequestedList ==
    [][\A r \in Requests :
          SetTickersReturns(r) =>
              /\ loc'[r].response = "updated"
              /\ state'.tickers = loc[r].payload
              /\ state'.loader = loc[r].payload
              /\ state'.engine = loc[r].payload
              /\ agents'[state'.agent].num_assets = Len(loc[r].payload)]_vars

\* C20: when set_tickers(T) returns "updated", the state's ticker list has
\* T's set of symbols and loader, engine and agent were built for the state's
\* list; the list is T itself when the previous universe had another set of
\* symbols or nothing was initialised, and otherwise the state is left as it was.
C20_StateHasRequestedSymbols ==
    [][\A r \in Requests :
          SetTickersReturns(r) =>
              /\ loc'[r].response = "updated"
              /\ ToSet(state'.tickers) = ToSet(loc[r].payload)
              /\ state'.loader = state'.tickers
              /\ state'.engine = state'.tickers
              /\ agents'[state'.agent].num_assets = Len(state'.tickers)
              /\ IF ToSet(state.tickers) # ToSet(loc[r].payload) \/ state.loader = NoObject
                 THEN state'.tickers = loc[r].payload
                 ELSE state' = state /\ agents' = agents]_vars

\* a set_tickers request for a reordering of the current universe returned
\* "updated" and the state kept its own order
C20_Witness ==
    \E r \in Requests :
        /\ loc[r].kind = "set_tickers"
        /\ loc[r].response = "updated"
        /\ state.loader # NoObject
        /\ state.tickers # loc[r].payload
        /\ ToSet(state.tickers) = ToSet(loc[r].payload)

=============================================================================
